---- MODULE Spec2Model ----
(***************************************************************************)
(* Verification model of wareflow-ems:                                     *)
(*   - utils/undo_manager.py    UndoManager and the action hierarchy       *)
(*   - employee/alert_settings.py  AlertSettingsManager                    *)
(*   - utils/backup_scheduler.py   BackupScheduler                         *)
(* The specifications of the module:                                       *)
(*   SpecUndo       the manager's two stacks                               *)
(*   SpecNotify     the manager with its history callbacks                 *)
(*   SpecRecord     Delete/Update/Create actions acting on one record      *)
(*   SpecCycle      one record edited, every edit recorded, undo and redo  *)
(*   SpecAlert      threshold settings of one manager and their file       *)
(*   SpecLevel      get_alert_level over arbitrary thresholds              *)
(*   SpecConfig     managers constructed from a config file, and the       *)
(*                  objects they share                                     *)
(*   SpecSingleton  the UndoManager singleton                              *)
(*   SpecScheduler  the backup scheduler, its caller, its threads and the  *)
(*                  clock                                                  *)
(*   SpecSchedulerLive  start, stop and the threads under fair scheduling  *)
(***************************************************************************)
EXTENDS Integers, Sequences, FiniteSets, TLC

VARIABLES
    \* ---- UndoManager (undo_manager.py:300-513)
    undo_stack,     \* self.undo_stack: sequence of action ids, most recent last
    redo_stack,     \* self.redo_stack
    max_history,    \* self.max_history
    action_id,      \* UndoableAction.action_id, the class-level id counter
    last,           \* the last manager call: operation, outcome of the action, return value
    before,         \* the two stacks as they were when the last call started
    recorded,       \* ids recorded by consecutive record_action calls (no other call between)
    \* ---- one persistent record and the action objects built over it
    record,         \* the stored row, or NotFound
    act,            \* the DeleteAction / UpdateAction / CreateAction object last constructed
    rlast,          \* the last call on the record or on the action object
    \* ---- AlertSettingsManager (alert_settings.py:90-330)
    settings,       \* self.settings: category -> CategoryAlertSettings
    config_file,    \* content of the file at self.config_path
    calls,          \* number of update_category / reset_to_defaults calls made
    alast,          \* the last settings call: operation, return value, the rules its arguments break
    \* ---- several AlertSettingsManager objects over one config path
    defaults,       \* the objects of the class attribute DEFAULT_SETTINGS
    mgr,            \* manager name -> its self.settings, and which entries are DEFAULT_SETTINGS' own objects
    disk,           \* content of the file at the shared config_path
    ccalls,         \* number of update_category / reset_to_defaults / save_settings calls made
    clast,          \* the last call: operation, manager, arguments, return value, whether it raised
    \* ---- the UndoManager singleton (undo_manager.py:314-346, 516-565)
    singleton,      \* UndoManager._instance: a manager's index in managers, or NoInstance
    managers,       \* every UndoManager object constructed so far, in order of construction
    got,            \* the managers get_instance() returned since the last reset_instance()
    since,          \* the actions recorded through record_* since the last reset_instance()
    sid,            \* number of actions constructed by record_*
    slast,          \* the last call: operation, manager returned, whether it raised
    \* ---- history callbacks of the UndoManager (undo_manager.py:471-486)
    callbacks,      \* self._history_callbacks: the registered callbacks, in order of registration
    invoked,        \* the callback invocations made by the last manager call, with the stacks each saw
    \* ---- get_alert_level over arbitrary thresholds (alert_settings.py:195-226)
    level_settings, \* one category's CategoryAlertSettings, as a config file may have set it
    probe,          \* the last pair of get_alert_level calls: the two days_until and the two tiers
    \* ---- one record edited through the application, every edit recorded (undo_manager.py:525-565)
    history,        \* the singleton manager's undo_stack and redo_stack, holding action objects
    next_id,        \* UndoableAction's id counter: the number of actions constructed
    scenario,       \* how far the calls made so far follow create, update, soft-delete, undo x 3, redo
    \* ---- BackupScheduler (backup_scheduler.py:22-245)
    running,        \* self.running
    stop_event,     \* self._stop_event: TRUE when the event is set
    thread,         \* self.thread: the index in threads of the thread last created, or NoThread
    threads,        \* every thread created by start(): where each one is in _run_scheduler
    last_backup_time, \* self._last_backup_time: the day of the datetime stored, or None
    config,         \* self.config: automatic_daily and backup_time
    backup_callbacks, \* self._backup_callbacks, in order of registration
    clock,          \* datetime.now(): the day and the part of the day
    caller,         \* the application thread: "idle", or "joining" inside stop()
    succeeded_today, \* TRUE when a scheduled backup was created and verified valid on the current day
    last_attempt,   \* the scheduled backup that completed last: its outcome and the callback calls it made
    manual_backup   \* TRUE once run_backup_now() has created a backup

undoVars   == <<undo_stack, redo_stack, max_history, action_id, last, before, recorded>>
recordVars == <<record, act, rlast>>
alertVars  == <<settings, config_file, calls, alast>>
configVars == <<defaults, mgr, disk, ccalls, clast>>
singletonVars == <<singleton, managers, got, since, sid, slast>>
notifyVars == <<callbacks, invoked>>
levelVars  == <<level_settings, probe>>
cycleVars  == <<history, next_id, scenario>>
schedulerVars == <<running, stop_event, thread, threads, last_backup_time, config,
                   backup_callbacks, clock, caller, succeeded_today, last_attempt,
                   manual_backup>>
laterVars  == <<notifyVars, levelVars, cycleVars, schedulerVars>>
vars       == <<undoVars, recordVars, alertVars, configVars, singletonVars, laterVars>>

----------------------------------------------------------------------------
(* Bounds of the model *)

MaxActions == 5     \* actions constructed in one behaviour
MaxHistory == 3     \* largest max_history a manager is constructed with
MaxThreshold == 3   \* largest days threshold of the settings get_alert_level is probed over
MaxThreads == 2     \* threads created by start() in one behaviour
MaxDay == 1         \* the clock runs over the days 0..MaxDay
MaxCallbacks == 2   \* register_callback calls in one behaviour

----------------------------------------------------------------------------
(* UndoManager *)

\* Python's None as a return value of undo() / redo()
None == -1

\* what action.undo() / action.redo() can do: report success, report failure,
\* or raise (UndoableAction.undo raises NotImplementedError)
ActionOutcomes == {"True", "False", "raise"}

Bottom_mut(s) == s[1]
Top(s) == s[Len(s)]

\* list.pop(): the list without its last element
PopLast(s) == SubSeq(s, 1, Len(s) - 1)

PopFirst_mut(s) == SubSeq(s, 1, Len(s) - 1)
\* list.pop(0): the list without its first element
PopFirst(s) == Tail(s)

NoEviction_mut(s, k) == s
\* record_action, "Enforce max history size"
EnforceMaxHistory(s, k) == IF Len(s) > k THEN PopFirst(s) ELSE s

KeepRedo_mut(s) == s
\* record_action, self.redo_stack.clear()
ClearRedo(s) == <<>>

\* UndoableAction.__init__ takes the class counter as the new action's id and
\* increments it; record_action then stores the new action
record_action ==
    /\ action_id < MaxActions
    /\ LET a == action_id IN
        /\ action_id' = action_id + 1
        /\ undo_stack' = EnforceMaxHistory(Append(undo_stack, a), max_history)
        /\ redo_stack' = ClearRedo(redo_stack)
        /\ last' = [op |-> "record_action", outcome |-> "none", result |-> None,
                    action |-> a, raised |-> FALSE,
                    prev |-> <<last.op, last.outcome>>]
        /\ before' = [undo_stack |-> undo_stack, redo_stack |-> redo_stack]
        /\ recorded' = Append(recorded, a)
    /\ UNCHANGED max_history

MoveToBottom_mut(origin, other, a) ==
    [origin |-> PopLast(origin), other |-> <<a>> \o other]
DuplicateToOther_mut(origin, other, a) ==
    [origin |-> Append(PopLast(origin), a), other |-> Append(other, a)]
\* undo()/redo() when the action reports success: the popped action goes on
\* top of the other stack (lines 379-383 and 401-405)
MoveToOther(origin, other, a) ==
    [origin |-> PopLast(origin), other |-> Append(other, a)]

DropOnFailure_mut(origin, other, a) ==
    [origin |-> PopLast(origin), other |-> other]
\* undo()/redo() when the action reports failure: the popped action is
\* appended back to the stack it came from (lines 384-387 and 406-409)
PutBack(origin, other, a) ==
    [origin |-> Append(PopLast(origin), a), other |-> other]

\* undo()/redo() when the action raises: nothing catches the exception, so the
\* function is left right after the pop (lines 376-377 and 398-399)
LeftPopped(origin, other, a) ==
    [origin |-> PopLast(origin), other |-> other]

\* the body shared by undo() and redo() once the origin stack is known to be
\* non-empty: pop the top action, call it, then move it or put it back
Transfer(origin, other, outcome) ==
    LET a == Top(origin) IN
    CASE outcome = "True"  -> MoveToOther(origin, other, a) @@
                              [result |-> a, raised |-> FALSE]
      [] outcome = "False" -> PutBack(origin, other, a) @@
                              [result |-> None, raised |-> FALSE]
      [] OTHER             -> LeftPopped(origin, other, a) @@
                              [result |-> None, raised |-> TRUE]

undo ==
    /\ IF undo_stack = <<>>
       THEN /\ UNCHANGED <<undo_stack, redo_stack>>
            /\ last' = [op |-> "undo", outcome |-> "empty", result |-> None,
                        action |-> None, raised |-> FALSE,
                        prev |-> <<last.op, last.outcome>>]
       ELSE \E outcome \in ActionOutcomes :
              LET a == Top(undo_stack)
                  r == Transfer(undo_stack, redo_stack, outcome)
              IN  /\ undo_stack' = r.origin
                  /\ redo_stack' = r.other
                  /\ last' = [op |-> "undo", outcome |-> outcome, result |-> r.result,
                              action |-> a, raised |-> r.raised,
                              prev |-> <<last.op, last.outcome>>]
    /\ before' = [undo_stack |-> undo_stack, redo_stack |-> redo_stack]
    /\ recorded' = <<>>
    /\ UNCHANGED <<max_history, action_id>>

redo ==
    /\ IF redo_stack = <<>>
       THEN /\ UNCHANGED <<undo_stack, redo_stack>>
            /\ last' = [op |-> "redo", outcome |-> "empty", result |-> None,
                        action |-> None, raised |-> FALSE,
                        prev |-> <<last.op, last.outcome>>]
       ELSE \E outcome \in ActionOutcomes :
              LET a == Top(redo_stack)
                  r == Transfer(redo_stack, undo_stack, outcome)
              IN  /\ redo_stack' = r.origin
                  /\ undo_stack' = r.other
                  /\ last' = [op |-> "redo", outcome |-> outcome, result |-> r.result,
                              action |-> a, raised |-> r.raised,
                              prev |-> <<last.op, last.outcome>>]
    /\ before' = [undo_stack |-> undo_stack, redo_stack |-> redo_stack]
    /\ recorded' = <<>>
    /\ UNCHANGED <<max_history, action_id>>

clear_history ==
    /\ undo_stack' = <<>>
    /\ redo_stack' = <<>>
    /\ last' = [op |-> "clear_history", outcome |-> "none", result |-> None,
                action |-> None, raised |-> FALSE,
                prev |-> <<last.op, last.outcome>>]
    /\ before' = [undo_stack |-> undo_stack, redo_stack |-> redo_stack]
    /\ recorded' = <<>>
    /\ UNCHANGED <<max_history, action_id>>

\* UndoManager.__init__ with max_history = k: two empty stacks
InitUndo ==
    /\ undo_stack = <<>>
    /\ redo_stack = <<>>
    /\ max_history \in 1..MaxHistory
    /\ action_id = 0
    /\ last = [op |-> "__init__", outcome |-> "none", result |-> None,
               action |-> None, raised |-> FALSE, prev |-> <<"none", "none">>]
    /\ before = [undo_stack |-> <<>>, redo_stack |-> <<>>]
    /\ recorded = <<>>

----------------------------------------------------------------------------
(* One persistent record and the three action classes *)

\* the values a data field takes (the tests write "John"/"Jane" and two e-mails)
FirstNames == {"John", "Jane"}
Emails     == {"john@test.com", "jane@test.com"}

DataFields == {"first_name", "email"}
FieldValues(f) == IF f = "first_name" THEN FirstNames ELSE Emails

\* instance._meta.fields without "id", "created_at", "updated_at": what both
\* _capture_snapshot methods copy (the timestamps are not modelled)
SnapshotFields == {"is_deleted", "first_name", "email"}

\* get_by_id(id) of a row that is gone raises; the row then has no content
NotFound == [exists |-> FALSE, capable |-> FALSE, is_deleted |-> FALSE,
             first_name |-> "John", email |-> "john@test.com"]

\* the record type's soft_delete(reason, deleted_by): marks the row inactive
soft_delete(row) == [row EXCEPT !.is_deleted = TRUE]

\* the record type's restore(): makes the row active again
restore(row) == [row EXCEPT !.is_deleted = FALSE]

\* "for field_name, value in values.items(): setattr(instance, field_name, value)"
\* followed by instance.save()
SetAttrs(row, values) ==
    [f \in DOMAIN row |-> IF f \in DOMAIN values THEN values[f] ELSE row[f]]

\* _capture_snapshot (lines 82-101 and 232-251)
CaptureSnapshot(row) == [f \in SnapshotFields |-> row[f]]

\* a dict of field values as the callers of UpdateAction pass it
ValueDicts ==
    UNION {{d \in [D -> FirstNames \cup Emails] : \A f \in D : d[f] \in FieldValues(f)} :
           D \in SUBSET DataFields}

\* no action object constructed yet
NoAction == [kind |-> "none"]

\* DeleteAction.undo (lines 112-125): restore the row if it is found and
\* supports restore(); an exception of get_by_id is turned into False
DeleteAction_undo(a, row) ==
    IF row.exists /\ row.capable
    THEN [ok |-> TRUE, row |-> restore(row)]
    ELSE [ok |-> FALSE, row |-> row]

\* DeleteAction.redo (lines 127-140)
DeleteAction_redo(a, row) ==
    IF row.exists /\ row.capable
    THEN [ok |-> TRUE, row |-> soft_delete(row)]
    ELSE [ok |-> FALSE, row |-> row]

UpdateAction_undo_mut(a, row) ==
    IF row.exists
    THEN [ok |-> TRUE, row |-> SetAttrs(row, a.new_values)]
    ELSE [ok |-> FALSE, row |-> row]
\* UpdateAction.undo (lines 179-194)
UpdateAction_undo(a, row) ==
    IF row.exists
    THEN [ok |-> TRUE, row |-> SetAttrs(row, a.old_values)]
    ELSE [ok |-> FALSE, row |-> row]

\* UpdateAction.redo (lines 196-211)
UpdateAction_redo(a, row) ==
    IF row.exists
    THEN [ok |-> TRUE, row |-> SetAttrs(row, a.new_values)]
    ELSE [ok |-> FALSE, row |-> row]

\* CreateAction.undo (lines 262-275)
CreateAction_undo(a, row) ==
    IF row.exists /\ row.capable
    THEN [ok |-> TRUE, row |-> soft_delete(row)]
    ELSE [ok |-> FALSE, row |-> row]

\* CreateAction.redo (lines 277-297): restore if soft deleted, then write the
\* snapshot back
CreateAction_redo(a, row) ==
    IF row.exists /\ row.capable
    THEN [ok |-> TRUE,
          row |-> SetAttrs(IF row.is_deleted THEN restore(row) ELSE row, a.snapshot)]
    ELSE [ok |-> FALSE, row |-> row]

ActionKinds == {"delete", "update", "create"}

Action_undo(kind, a, row) ==
    CASE kind = "delete" -> DeleteAction_undo(a, row)
      [] kind = "update" -> UpdateAction_undo(a, row)
      [] OTHER           -> CreateAction_undo(a, row)

Action_redo(kind, a, row) ==
    CASE kind = "delete" -> DeleteAction_redo(a, row)
      [] kind = "update" -> UpdateAction_redo(a, row)
      [] OTHER           -> CreateAction_redo(a, row)

\* after_undo: the call before this one was a successful undo() of the same action
RLast(op, kind, ok, after_undo) ==
    [op |-> op, kind |-> kind, result |-> ok, after_undo |-> after_undo]

\* the application edits a field of the record and saves it
Model_save ==
    /\ record.exists
    /\ \E f \in DataFields : \E v \in FieldValues(f) :
         record' = [record EXCEPT ![f] = v]
    /\ rlast' = RLast("save", "none", TRUE, FALSE)
    /\ UNCHANGED act

\* the application soft-deletes the record
Model_soft_delete ==
    /\ record.exists /\ record.capable
    /\ record' = soft_delete(record)
    /\ rlast' = RLast("soft_delete", "none", TRUE, FALSE)
    /\ UNCHANGED act

\* the row is removed from the store for good (get_by_id no longer finds it)
Model_delete_instance ==
    /\ record.exists
    /\ record' = NotFound
    /\ rlast' = RLast("delete_instance", "none", TRUE, FALSE)
    /\ UNCHANGED act

\* CreateAction.__init__ (lines 217-230), called on the record just created
CreateAction_init ==
    /\ rlast.op = "create"
    /\ act' = [kind |-> "create", snapshot |-> CaptureSnapshot(record)]
    /\ rlast' = RLast("CreateAction", "create", TRUE, FALSE)
    /\ UNCHANGED record

\* DeleteAction.__init__ (lines 67-80)
DeleteAction_init ==
    /\ record.exists
    /\ act' = [kind |-> "delete", snapshot |-> CaptureSnapshot(record)]
    /\ rlast' = RLast("DeleteAction", "delete", TRUE, FALSE)
    /\ UNCHANGED record

\* UpdateAction.__init__ (lines 146-168): deep copies of the two dicts
UpdateAction_init ==
    /\ record.exists
    /\ \E old \in ValueDicts : \E new \in ValueDicts :
         act' = [kind |-> "update", old_values |-> old, new_values |-> new]
    /\ rlast' = RLast("UpdateAction", "update", TRUE, FALSE)
    /\ UNCHANGED record

\* action.undo() called on the constructed action
CallUndo ==
    /\ act.kind \in ActionKinds
    /\ LET r == Action_undo(act.kind, act, record) IN
        /\ record' = r.row
        /\ rlast' = RLast("undo", act.kind, r.ok, FALSE)
    /\ UNCHANGED act

\* action.redo() called on the constructed action
CallRedo ==
    /\ act.kind \in ActionKinds
    /\ LET r == Action_redo(act.kind, act, record) IN
        /\ record' = r.row
        /\ rlast' = RLast("redo", act.kind, r.ok, rlast.op = "undo" /\ rlast.result)
    /\ UNCHANGED act

\* the record right after Model.create(...): found, not deleted; whether the
\* record type supports soft_delete/restore is fixed by its class
InitRecord ==
    /\ \E c \in BOOLEAN : \E n \in FirstNames : \E e \in Emails :
         record = [exists |-> TRUE, capable |-> c, is_deleted |-> FALSE,
                   first_name |-> n, email |-> e]
    /\ act = NoAction
    /\ rlast = RLast("create", "none", TRUE, FALSE)

----------------------------------------------------------------------------
(* AlertSettingsManager *)

MaxDays  == 3      \* update_category is called with day counts 0..MaxDays
MaxCalls == 2      \* update_category / reset_to_defaults calls in one behaviour

\* VALID_CATEGORIES (line 134)
VALID_CATEGORIES == {"caces", "medical", "training", "contracts"}

\* category arguments: the four categories and one unknown name
CategoryInputs == VALID_CATEGORIES \cup {"invalid"}

\* a category argument that is None (or empty): "all categories"
NoCategory == ""

\* an optional AlertLevel / an optional critical_days argument
NoLevel == [present |-> FALSE, days |-> 0]
Level(d) == [present |-> TRUE, days |-> d]

\* DEFAULT_SETTINGS (lines 104-132); of an AlertLevel only days is modelled
DEFAULT_SETTINGS ==
    [c \in VALID_CATEGORIES |->
        CASE c = "caces"    -> [enabled |-> TRUE, info |-> 90, warning |-> 60,
                                alert |-> 30, critical |-> Level(7)]
          [] c = "medical"  -> [enabled |-> TRUE, info |-> 90, warning |-> 60,
                                alert |-> 30, critical |-> Level(7)]
          [] c = "training" -> [enabled |-> TRUE, info |-> 60, warning |-> 30,
                                alert |-> 14, critical |-> Level(7)]
          [] OTHER          -> [enabled |-> TRUE, info |-> 90, warning |-> 60,
                                alert |-> 30, critical |-> NoLevel]]

DayInputs      == 0..MaxDays
CriticalInputs == {NoLevel} \cup {Level(d) : d \in DayInputs}

\* days_until values the classification is probed with: around the small
\* thresholds update_category can set and around the default thresholds
DaysUntilValues == (-2..(MaxDays + 5)) \cup {13, 14, 15, 29, 30, 31, 59, 60, 61, 89, 90, 91}

LeastUrgentFirst_mut(s, category, days_until) ==
    IF category \notin DOMAIN s THEN "None"
    ELSE LET cat_settings == s[category] IN
         IF ~cat_settings.enabled THEN "None"
         ELSE IF days_until <= cat_settings.info THEN "info"
         ELSE IF days_until <= cat_settings.warning THEN "warning"
         ELSE IF days_until <= cat_settings.alert THEN "alert"
         ELSE IF cat_settings.critical.present /\ days_until <= cat_settings.critical.days
              THEN "critical"
         ELSE "None"
IgnoresEnabled_mut(s, category, days_until) ==
    IF category \notin DOMAIN s THEN "None"
    ELSE LET cat_settings == s[category] IN
         IF cat_settings.critical.present /\ days_until <= cat_settings.critical.days
              THEN "critical"
         ELSE IF days_until <= cat_settings.alert THEN "alert"
         ELSE IF days_until <= cat_settings.warning THEN "warning"
         ELSE IF days_until <= cat_settings.info THEN "info"
         ELSE "None"
\* get_alert_level (lines 195-226); the result is the tier's name, "None" for None
get_alert_level(s, category, days_until) ==
    IF category \notin DOMAIN s THEN "None"
    ELSE LET cat_settings == s[category] IN
         IF ~cat_settings.enabled THEN "None"
         ELSE IF cat_settings.critical.present /\ days_until <= cat_settings.critical.days
              THEN "critical"
         ELSE IF days_until <= cat_settings.alert THEN "alert"
         ELSE IF days_until <= cat_settings.warning THEN "warning"
         ELSE IF days_until <= cat_settings.info THEN "info"
         ELSE "None"

\* the settings a category can hold when they come from a config file, which
\* from_dict loads without validating: any thresholds, in any order, with or
\* without a critical level
ThresholdValues == 0..MaxThreshold
AnyCategorySettings ==
    [enabled : BOOLEAN, info : ThresholdValues, warning : ThresholdValues,
     alert : ThresholdValues,
     critical : {NoLevel} \cup {Level(d) : d \in ThresholdValues}]

\* days_until values below, between and above the thresholds
ProbeDays == (-1)..(MaxThreshold + 1)

NoProbe == [made |-> FALSE, d1 |-> 0, d2 |-> 0, tier1 |-> "None", tier2 |-> "None"]

\* two get_alert_level calls on the same settings, days_until d1 <= d2
probe_get_alert_level ==
    /\ \E d1 \in ProbeDays, d2 \in ProbeDays :
         /\ d1 <= d2
         /\ probe' = [made |-> TRUE, d1 |-> d1, d2 |-> d2,
                      tier1 |-> get_alert_level([caces |-> level_settings], "caces", d1),
                      tier2 |-> get_alert_level([caces |-> level_settings], "caces", d2)]
    /\ UNCHANGED level_settings

InitLevel ==
    /\ level_settings \in AnyCategorySettings
    /\ probe = NoProbe

IdleLevel ==
    /\ level_settings = DEFAULT_SETTINGS["caces"]
    /\ probe = NoProbe

\* is_enabled (lines 306-318)
is_enabled(s, category) ==
    IF category \notin DOMAIN s THEN FALSE ELSE s[category].enabled

\* the level names of a category entry in the file; critical is optional
RequiredLevels == {"info", "warning", "alert"}

\* CategoryAlertSettings.to_dict (lines 61-73); of each level only days is kept
to_dict(cat) ==
    [enabled |-> cat.enabled,
     levels_is_object |-> TRUE,
     levels |-> [l \in RequiredLevels \cup (IF cat.critical.present THEN {"critical"} ELSE {}) |->
                   CASE l = "info"    -> cat.info
                     [] l = "warning" -> cat.warning
                     [] l = "alert"   -> cat.alert
                     [] OTHER         -> cat.critical.days]]

\* a file without category entries
NoEntries == [c \in {} |-> 0]

\* the file at config_path: absent, a complete document as save_settings writes
\* it (lines 182-188), or what is left of a write that was cut short (no JSON)
AbsentFile == [kind |-> "absent", alert_settings |-> NoEntries]
PartialFile == [kind |-> "not_json", alert_settings |-> NoEntries]
Document(s) == [kind |-> "object", alert_settings |-> [c \in DOMAIN s |-> to_dict(s[c])]]

\* how save_settings can end: written; OSError from mkdir or open before the
\* file is touched; OSError while the opened (truncated) file is being written
SaveOutcomes == {"ok", "not_opened", "write_failed"}

\* save_settings (lines 173-193)
save_settings(s, file, outcome) ==
    CASE outcome = "ok"         -> [result |-> TRUE, file |-> Document(s)]
      [] outcome = "not_opened" -> [result |-> FALSE, file |-> file]
      [] OTHER                  -> [result |-> FALSE, file |-> PartialFile]

NotStrictlyDescending_mut(category, info_days, warning_days, alert_days, critical_days) ==
    ~ \/ category \notin VALID_CATEGORIES
      \/ ~(\A d \in {info_days, warning_days, alert_days} : d > 0)
      \/ ~(info_days >= warning_days /\ warning_days > alert_days)
      \/ (critical_days.present /\ critical_days.days >= alert_days)
\* update_category, the checks of lines 263-274: TRUE when none of them returns False
PassesValidation(category, info_days, warning_days, alert_days, critical_days) ==
    ~ \/ category \notin VALID_CATEGORIES
      \/ ~(\A d \in {info_days, warning_days, alert_days} : d > 0)
      \/ ~(info_days > warning_days /\ warning_days > alert_days)
      \/ (critical_days.present /\ critical_days.days >= alert_days)

\* update_category, lines 276-283: the assignments to the category's settings
UpdatedCategory(cat, info_days, warning_days, alert_days, critical_days, enabled) ==
    [enabled  |-> enabled,
     info     |-> info_days,
     warning  |-> warning_days,
     alert    |-> alert_days,
     critical |-> IF critical_days.present /\ cat.critical.present
                  THEN Level(critical_days.days) ELSE cat.critical]

\* the rules of update_category that a call's arguments break
BrokenRules(category, info_days, warning_days, alert_days, critical_days) ==
    {r \in {"unknown_category", "not_positive", "not_descending", "critical_not_below_alert"} :
        \/ r = "unknown_category" /\ category \notin VALID_CATEGORIES
        \/ r = "not_positive" /\ (info_days <= 0 \/ warning_days <= 0 \/ alert_days <= 0)
        \/ r = "not_descending" /\ (info_days <= warning_days \/ warning_days <= alert_days)
        \/ r = "critical_not_below_alert" /\ critical_days.present
                                          /\ critical_days.days >= alert_days}

\* the argument lists update_category is called with
UpdateInputs ==
    [category : CategoryInputs, info_days : DayInputs, warning_days : DayInputs,
     alert_days : DayInputs, critical_days : CriticalInputs, enabled : BOOLEAN]

Passes(x) ==
    PassesValidation(x.category, x.info_days, x.warning_days, x.alert_days, x.critical_days)
Broken(x) ==
    BrokenRules(x.category, x.info_days, x.warning_days, x.alert_days, x.critical_days)

\* the return statement of lines 263-274 a rejected call leaves through: the
\* first of the checks, in the order of the code, that its arguments fail
ReturnTaken(x) ==
    IF "unknown_category" \in Broken(x) THEN "line 264"
    ELSE IF "not_positive" \in Broken(x) THEN "line 268"
    ELSE IF "not_descending" \in Broken(x) THEN "line 271"
    ELSE "line 274"

\* the calls that are explored: every argument list that passes the validation,
\* and of those that do not one for each return statement they leave through
AcceptedInputs == {x \in UpdateInputs : Passes(x)}
RejectedInputs == UpdateInputs \ AcceptedInputs
RejectedRepresentatives ==
    {CHOOSE x \in RejectedInputs : ReturnTaken(x) = r : r \in {ReturnTaken(y) : y \in RejectedInputs}}

\* update_category (lines 240-285) called with the arguments x
update_category_call(x) ==
    IF ~Passes(x)
    THEN /\ UNCHANGED <<settings, config_file>>
         /\ alast' = [op |-> "update_category", result |-> FALSE, broken |-> Broken(x)]
    ELSE \E outcome \in SaveOutcomes :
           LET s == [settings EXCEPT ![x.category] =
                       UpdatedCategory(settings[x.category], x.info_days, x.warning_days,
                                       x.alert_days, x.critical_days, x.enabled)]
               r == save_settings(s, config_file, outcome)
           IN  /\ settings' = s
               /\ config_file' = r.file
               /\ alast' = [op |-> "update_category", result |-> r.result,
                            broken |-> Broken(x)]

update_category ==
    /\ calls < MaxCalls
    /\ calls' = calls + 1
    /\ \E x \in AcceptedInputs \cup RejectedRepresentatives : update_category_call(x)

\* reset_to_defaults (lines 287-304)
reset_to_defaults ==
    /\ calls < MaxCalls
    /\ calls' = calls + 1
    /\ \E category \in CategoryInputs \cup {NoCategory} :
         IF category # NoCategory /\ category \notin VALID_CATEGORIES
         THEN /\ UNCHANGED <<settings, config_file>>
              /\ alast' = [op |-> "reset_to_defaults", result |-> FALSE, broken |-> {}]
         ELSE \E outcome \in SaveOutcomes :
                LET s == IF category # NoCategory
                         THEN [settings EXCEPT ![category] = DEFAULT_SETTINGS[category]]
                         ELSE DEFAULT_SETTINGS
                    r == save_settings(s, config_file, outcome)
                IN  /\ settings' = s
                    /\ config_file' = r.file
                    /\ alast' = [op |-> "reset_to_defaults", result |-> r.result,
                                 broken |-> {}]

\* AlertSettingsManager.__init__ when no config file exists (lines 152-153)
InitAlert ==
    /\ settings = DEFAULT_SETTINGS
    /\ config_file = AbsentFile
    /\ calls = 0
    /\ alast = [op |-> "__init__", result |-> TRUE, broken |-> {}]

----------------------------------------------------------------------------
(* AlertSettingsManager objects constructed from a config file.  Python binds
   names to objects: an entry of self.settings that was assigned from
   DEFAULT_SETTINGS without a copy IS the class's object, and an assignment to
   its fields is seen through every reference to it. *)

MaxConfigCalls == 2    \* update_category / reset_to_defaults / save_settings calls in one behaviour

\* the manager objects of a process
ManagerNames == {"first", "second"}

\* VALID_CATEGORIES in list order (line 134): _load_settings iterates in it
CategoryOrder == <<"caces", "medical", "training", "contracts">>

\* entries a hand-written or older config file holds: well formed with and
\* without a critical level, a required level missing, and a "levels" value
\* that is no JSON object
EntryWithCritical ==
    [enabled |-> TRUE, levels_is_object |-> TRUE,
     levels |-> [l \in RequiredLevels \cup {"critical"} |->
                   CASE l = "info" -> 50 [] l = "warning" -> 40 [] l = "alert" -> 20
                     [] OTHER -> 5]]
EntryWithoutCritical ==
    [enabled |-> FALSE, levels_is_object |-> TRUE,
     levels |-> [l \in RequiredLevels |->
                   CASE l = "info" -> 50 [] l = "warning" -> 40 [] OTHER -> 20]]
EntryMissingLevel ==
    [enabled |-> TRUE, levels_is_object |-> TRUE,
     levels |-> [l \in {"info", "alert"} |-> IF l = "info" THEN 50 ELSE 20]]
EntryLevelsNotObject ==
    [enabled |-> TRUE, levels_is_object |-> FALSE, levels |-> NoEntries]

\* the entries hand-written files hold, by category
FileEntries ==
    [c \in {"caces", "contracts"} |->
       IF c = "caces"
       THEN {EntryWithCritical, EntryWithoutCritical, EntryMissingLevel, EntryLevelsNotObject}
       ELSE {EntryWithoutCritical}]

\* the files a manager can find at its path before anything was saved
InitialFiles ==
    {AbsentFile, PartialFile, [kind |-> "not_object", alert_settings |-> NoEntries]}
    \cup {[kind |-> "object", alert_settings |-> e] :
            e \in UNION {{f \in [S -> UNION {FileEntries[c] : c \in S}] :
                            \A c \in S : f[c] \in FileEntries[c]} :
                         S \in SUBSET DOMAIN FileEntries}}

\* an entry from which from_dict builds a CategoryAlertSettings
WellFormed(entry) == entry.levels_is_object /\ RequiredLevels \subseteq DOMAIN entry.levels

from_dict_drops_critical_mut(entry) ==
    [enabled  |-> entry.enabled,
     info     |-> entry.levels["info"],
     warning  |-> entry.levels["warning"],
     alert    |-> entry.levels["alert"],
     critical |-> NoLevel]
\* CategoryAlertSettings.from_dict (lines 75-87) on a well-formed entry
from_dict(entry) ==
    [enabled  |-> entry.enabled,
     info     |-> entry.levels["info"],
     warning  |-> entry.levels["warning"],
     alert    |-> entry.levels["alert"],
     critical |-> IF "critical" \in DOMAIN entry.levels
                  THEN Level(entry.levels["critical"]) ELSE NoLevel]

\* how from_dict ends on an entry: levels.get of line 79 raises AttributeError
\* when levels is no object, levels[...] of lines 83-85 raises KeyError
from_dict_outcome(entry) ==
    IF ~entry.levels_is_object THEN "AttributeError"
    ELSE IF ~(RequiredLevels \subseteq DOMAIN entry.levels) THEN "KeyError"
    ELSE "ok"

\* the first category, in list order, whose entry from_dict fails on; 0 if none
FirstFailing(entries) ==
    LET bad == {i \in 1..Len(CategoryOrder) :
                  /\ CategoryOrder[i] \in DOMAIN entries
                  /\ from_dict_outcome(entries[CategoryOrder[i]]) # "ok"}
    IN  IF bad = {} THEN 0 ELSE CHOOSE i \in bad : \A j \in bad : i <= j

\* a manager's state: own[c] is the object it alone refers to, shared[c] says
\* that settings[c] is the object DEFAULT_SETTINGS[c] itself
AllOwn(table) == [live |-> TRUE, own |-> table, shared |-> [c \in VALID_CATEGORIES |-> FALSE]]
NoManager == [live |-> FALSE, own |-> DEFAULT_SETTINGS, shared |-> [c \in VALID_CATEGORIES |-> FALSE]]

\* _load_settings (lines 146-171) given the file and the class's table
_load_settings(file, table) ==
    CASE file.kind = "absent"     -> [raised |-> FALSE, manager |-> AllOwn(table)]
      [] file.kind = "not_json"   -> [raised |-> FALSE, manager |-> AllOwn(table)]
      [] file.kind = "not_object" -> [raised |-> TRUE, manager |-> NoManager]
      [] OTHER ->
           LET entries == file.alert_settings
               i == FirstFailing(entries)
           IN  IF i # 0
               THEN IF from_dict_outcome(entries[CategoryOrder[i]]) = "KeyError"
                    THEN [raised |-> FALSE, manager |-> AllOwn(table)]
                    ELSE [raised |-> TRUE, manager |-> NoManager]
               ELSE [raised |-> FALSE,
                     manager |->
                       [live |-> TRUE,
                        own |-> [c \in VALID_CATEGORIES |->
                                   IF c \in DOMAIN entries THEN from_dict(entries[c])
                                   ELSE DEFAULT_SETTINGS[c]],
                        shared |-> [c \in VALID_CATEGORIES |-> c \notin DOMAIN entries]]]

\* self.settings of a manager, read through its references
SettingsOf(manager, table) ==
    [c \in VALID_CATEGORIES |-> IF manager.shared[c] THEN table[c] ELSE manager.own[c]]

\* the arguments of a call without arguments
NoArgs == [category |-> NoCategory, info_days |-> 0, warning_days |-> 0, alert_days |-> 0,
           critical_days |-> NoLevel, enabled |-> FALSE]

CLast(op, m, args, result, raised, after_save) ==
    [op |-> op, m |-> m, args |-> args, result |-> result, raised |-> raised,
     after_save |-> after_save]

\* the last call wrote the complete document of its manager's settings
Saved == clast.op \in {"update_category", "reset_to_defaults", "save_settings"} /\ clast.result

\* AlertSettingsManager.__init__ (lines 137-144)
AlertSettingsManager_init ==
    \E m \in ManagerNames :
      /\ ~mgr[m].live
      /\ m = "second" => clast.op # "none"      \* "first" names the first one constructed
      /\ LET r == _load_settings(disk, defaults)
         IN  /\ mgr' = [mgr EXCEPT ![m] = r.manager]
             /\ clast' = CLast("__init__", m, NoArgs, ~r.raised, r.raised, Saved)
      /\ UNCHANGED <<defaults, disk, ccalls>>

\* argument lists of update_category on these managers
ConfigUpdateInputs ==
    [category : {"caces", "contracts"}, info_days : {3}, warning_days : {2}, alert_days : {1},
     critical_days : {NoLevel, Level(0)}, enabled : BOOLEAN]
    \cup [category : {"invalid"}, info_days : {3}, warning_days : {2}, alert_days : {1},
          critical_days : {NoLevel}, enabled : {TRUE}]
    \cup [category : {"caces"}, info_days : {2}, warning_days : {2}, alert_days : {1},
          critical_days : {NoLevel}, enabled : {TRUE}]

\* an assignment to the fields of settings[c] of a manager (lines 276-283): to
\* the class's object when the entry is shared
AssignFields(m, c, value) ==
    IF mgr[m].shared[c]
    THEN /\ defaults' = [defaults EXCEPT ![c] = value]
         /\ mgr' = mgr
    ELSE /\ mgr' = [mgr EXCEPT ![m].own[c] = value]
         /\ defaults' = defaults

\* update_category (lines 240-285) on manager m
instance_update_category ==
    /\ ccalls < MaxConfigCalls
    /\ ccalls' = ccalls + 1
    /\ \E m \in ManagerNames, x \in ConfigUpdateInputs :
         /\ mgr[m].live
         /\ IF ~Passes(x)
            THEN /\ UNCHANGED <<defaults, mgr, disk>>
                 /\ clast' = CLast("update_category", m, x, FALSE, FALSE, FALSE)
            ELSE \E outcome \in SaveOutcomes :
                   LET value == UpdatedCategory(SettingsOf(mgr[m], defaults)[x.category],
                                                x.info_days, x.warning_days, x.alert_days,
                                                x.critical_days, x.enabled)
                   IN  /\ AssignFields(m, x.category, value)
                       /\ LET r == save_settings(SettingsOf(mgr'[m], defaults'), disk, outcome)
                          IN  /\ disk' = r.file
                              /\ clast' = CLast("update_category", m, x, r.result, FALSE, FALSE)

\* reset_to_defaults (lines 287-304) on manager m: deep copies of the class's objects
instance_reset_to_defaults ==
    /\ ccalls < MaxConfigCalls
    /\ ccalls' = ccalls + 1
    /\ \E m \in ManagerNames, category \in {"caces", "contracts", "invalid", NoCategory} :
         /\ mgr[m].live
         /\ LET args == [NoArgs EXCEPT !.category = category]
            IN  IF category # NoCategory /\ category \notin VALID_CATEGORIES
                THEN /\ UNCHANGED <<defaults, mgr, disk>>
                     /\ clast' = CLast("reset_to_defaults", m, args, FALSE, FALSE, FALSE)
                ELSE \E outcome \in SaveOutcomes :
                       /\ mgr' = [mgr EXCEPT ![m] =
                                    IF category # NoCategory
                                    THEN [@ EXCEPT !.own[category] = defaults[category],
                                                   !.shared[category] = FALSE]
                                    ELSE AllOwn(defaults)]
                       /\ defaults' = defaults
                       /\ LET r == save_settings(SettingsOf(mgr'[m], defaults), disk, outcome)
                          IN  /\ disk' = r.file
                              /\ clast' = CLast("reset_to_defaults", m, args, r.result,
                                                FALSE, FALSE)

\* save_settings (lines 173-193) called on manager m
instance_save_settings ==
    /\ ccalls < MaxConfigCalls
    /\ ccalls' = ccalls + 1
    /\ \E m \in ManagerNames, outcome \in SaveOutcomes :
         /\ mgr[m].live
         /\ LET r == save_settings(SettingsOf(mgr[m], defaults), disk, outcome)
            IN  /\ disk' = r.file
                /\ clast' = CLast("save_settings", m, NoArgs, r.result, FALSE, FALSE)
         /\ UNCHANGED <<defaults, mgr>>

\* a process start: the class's table as written in the source, no manager
\* constructed yet, any of the files at the path
InitConfig ==
    /\ defaults = DEFAULT_SETTINGS
    /\ mgr = [m \in ManagerNames |-> NoManager]
    /\ disk \in InitialFiles
    /\ ccalls = 0
    /\ clast = CLast("none", "first", NoArgs, TRUE, FALSE, FALSE)

----------------------------------------------------------------------------
(* The UndoManager singleton *)

MaxManagers == 3    \* UndoManager objects constructed in one behaviour
MaxRecords  == 3    \* record_delete / record_update / record_create calls in one behaviour

\* UndoManager._instance = None
NoInstance == 0

\* the default of UndoManager.__init__'s max_history (line 316)
DEFAULT_MAX_HISTORY == 100

\* UndoManager.__init__, lines 325-330: a manager with empty stacks
NewManager(k) == [undo_stack |-> <<>>, redo_stack |-> <<>>, max_history |-> k]

AlwaysUnset_mut(inst) == TRUE
\* get_instance, line 339: cls._instance is None
IsUnset(inst) == inst = NoInstance

\* get_instance (lines 332-341): the class's instance, constructed with the
\* default max_history if there is none
GetInstance(inst, ms) ==
    IF IsUnset(inst)
    THEN [instance |-> Len(ms) + 1, managers |-> Append(ms, NewManager(DEFAULT_MAX_HISTORY))]
    ELSE [instance |-> inst, managers |-> ms]

SLast(op, result, raised) == [op |-> op, result |-> result, raised |-> raised]

get_instance ==
    /\ IsUnset(singleton) => Len(managers) < MaxManagers
    /\ LET r == GetInstance(singleton, managers)
       IN  /\ singleton' = r.instance
           /\ managers' = r.managers
           /\ got' = got \cup {r.instance}
           /\ slast' = SLast("get_instance", r.instance, FALSE)
    /\ UNCHANGED <<since, sid>>

\* reset_instance (lines 343-346)
reset_instance ==
    /\ singleton' = NoInstance
    /\ got' = {}
    /\ since' = <<>>
    /\ slast' = SLast("reset_instance", NoInstance, FALSE)
    /\ UNCHANGED <<managers, sid>>

\* UndoManager(max_history) called directly (lines 316-330): raises while the
\* class holds an instance, and never registers the manager it constructs
UndoManager_init ==
    /\ \E k \in (1..MaxHistory) \cup {DEFAULT_MAX_HISTORY} :
         IF singleton # NoInstance
         THEN /\ slast' = SLast("__init__", NoInstance, TRUE)
              /\ UNCHANGED managers
         ELSE /\ Len(managers) < MaxManagers
              /\ managers' = Append(managers, NewManager(k))
              /\ slast' = SLast("__init__", Len(managers) + 1, FALSE)
    /\ UNCHANGED <<singleton, got, since, sid>>

\* record_delete / record_update / record_create (lines 525-565): the action is
\* constructed and recorded on the manager get_undo_manager() returns
RecordOnSingleton(op) ==
    /\ sid < MaxRecords
    /\ IsUnset(singleton) => Len(managers) < MaxManagers
    /\ LET r == GetInstance(singleton, managers)
           manager == r.managers[r.instance]
       IN  /\ singleton' = r.instance
           /\ managers' = [r.managers EXCEPT ![r.instance] =
                             [undo_stack |-> EnforceMaxHistory(Append(manager.undo_stack, sid),
                                                               manager.max_history),
                              redo_stack |-> ClearRedo(manager.redo_stack),
                              max_history |-> manager.max_history]]
           /\ got' = got \cup {r.instance}
           /\ slast' = SLast(op, r.instance, FALSE)
    /\ since' = Append(since, sid)
    /\ sid' = sid + 1

record_delete == RecordOnSingleton("record_delete")
record_update == RecordOnSingleton("record_update")
record_create == RecordOnSingleton("record_create")

\* a process start: the class holds no instance
InitSingleton ==
    /\ singleton = NoInstance
    /\ managers = <<>>
    /\ got = {}
    /\ since = <<>>
    /\ sid = 0
    /\ slast = SLast("none", NoInstance, FALSE)

----------------------------------------------------------------------------
(* History callbacks of the UndoManager *)

\* the callbacks an application registers: one that returns and one whose
\* call raises an Exception
CallbackNames == {"observer", "faulty"}
CallbackRaises(cb) == cb = "faulty"

LeavesLoop_mut(cb) == CallbackRaises(cb)
\* _notify_history_changed, "except Exception: pass": whether what the call
\* of cb raised leaves the loop
Propagates(cb) == FALSE

\* _notify_history_changed (lines 480-486) over the callbacks cbs while the
\* stacks are u and r: the calls made, each with the stacks the callback
\* could observe, and whether an exception left the loop
RECURSIVE _notify_history_changed(_, _, _)
_notify_history_changed(cbs, u, r) ==
    IF cbs = <<>>
    THEN [calls |-> <<>>, raised |-> FALSE]
    ELSE LET call == [callback |-> Head(cbs), undo_stack |-> u, redo_stack |-> r]
         IN  IF Propagates(Head(cbs))
             THEN [calls |-> <<call>>, raised |-> TRUE]
             ELSE LET rest == _notify_history_changed(Tail(cbs), u, r)
                  IN  [calls |-> <<call>> \o rest.calls, raised |-> rest.raised]

NotifiesAlways_mut(success) == TRUE
\* undo() and redo(): the notification is inside "if success:"
NotifiesWhen(success) == success

NoCalls == [calls |-> <<>>, raised |-> FALSE]

\* register_history_callback (lines 471-478)
register_history_callback ==
    /\ \E cb \in CallbackNames :
         callbacks' = IF \E i \in 1..Len(callbacks) : callbacks[i] = cb
                      THEN callbacks
                      ELSE Append(callbacks, cb)
    /\ invoked' = [op |-> "register_history_callback"] @@ NoCalls
    /\ UNCHANGED undoVars

\* record_action with its last statement, the notification (line 365)
notifying_record_action ==
    /\ record_action
    /\ invoked' = [op |-> "record_action"] @@
                     _notify_history_changed(callbacks, undo_stack', redo_stack')
    /\ UNCHANGED callbacks

\* clear_history with its last statement, the notification (line 451)
notifying_clear_history ==
    /\ clear_history
    /\ invoked' = [op |-> "clear_history"] @@
                     _notify_history_changed(callbacks, undo_stack', redo_stack')
    /\ UNCHANGED callbacks

\* undo() with the notification of its success branch (line 380); an action
\* that raises leaves undo() before the branch
notifying_undo ==
    /\ undo
    /\ invoked' = [op |-> "undo"] @@
                     IF ~last'.raised /\ NotifiesWhen(last'.result # None)
                     THEN _notify_history_changed(callbacks, undo_stack', redo_stack')
                     ELSE NoCalls
    /\ UNCHANGED callbacks

\* redo() with the notification of its success branch (line 402)
notifying_redo ==
    /\ redo
    /\ invoked' = [op |-> "redo"] @@
                     IF ~last'.raised /\ NotifiesWhen(last'.result # None)
                     THEN _notify_history_changed(callbacks, undo_stack', redo_stack')
                     ELSE NoCalls
    /\ UNCHANGED callbacks

\* UndoManager.__init__: self._history_callbacks = []
InitNotify ==
    /\ callbacks = <<>>
    /\ invoked = [op |-> "__init__"] @@ NoCalls

----------------------------------------------------------------------------
(* One record edited through the application, every edit recorded *)

\* the steps of test_full_undo_redo_cycle_employee, in order
ScenarioSteps == <<"record_create", "record_update", "record_delete",
                   "undo", "undo", "undo", "redo">>

NoValues == [f \in {} |-> "John"]

\* the scenario monitor: done counts the calls made so far while they are the
\* first calls of ScenarioSteps, in order, and followed is given up at the first
\* other call; born holds the field values at creation, old_values the
\* old_values passed to record_update
Followed(sc, op) ==
    /\ sc.followed
    /\ sc.done < Len(ScenarioSteps)
    /\ ScenarioSteps[sc.done + 1] = op

Advance(sc, op, row, old) ==
    IF Followed(sc, op)
    THEN [followed |-> TRUE, done |-> sc.done + 1,
          born |-> IF op = "record_create" THEN CaptureSnapshot(row) ELSE sc.born,
          old_values |-> IF op = "record_update" THEN old ELSE sc.old_values]
    ELSE [followed |-> FALSE, done |-> 0, born |-> sc.born, old_values |-> NoValues]

\* manager.record_action(action) on the singleton, whose max_history is the
\* default one
Recorded(h, action) ==
    [undo_stack |-> EnforceMaxHistory(Append(h.undo_stack, action), DEFAULT_MAX_HISTORY),
     redo_stack |-> ClearRedo(h.redo_stack)]

\* Model.create(...) followed by record_create(instance, ...) (lines 555-565)
app_create ==
    /\ ~record.exists
    /\ next_id < MaxRecords
    /\ \E n \in FirstNames : \E e \in Emails :
         LET row == [exists |-> TRUE, capable |-> TRUE, is_deleted |-> FALSE,
                     first_name |-> n, email |-> e]
         IN  /\ record' = row
             /\ history' = Recorded(history, [kind |-> "create", action_id |-> next_id,
                                              snapshot |-> CaptureSnapshot(row)])
             /\ scenario' = Advance(scenario, "record_create", row, NoValues)
    /\ next_id' = next_id + 1

\* the application changes fields of the record, saves it and calls
\* record_update(instance, old_values, new_values, ...) (lines 538-552)
app_update ==
    /\ record.exists
    /\ next_id < MaxRecords
    /\ \E new \in ValueDicts :
         /\ DOMAIN new # {}
         /\ \A f \in DOMAIN new : new[f] # record[f]
         /\ LET old == [f \in DOMAIN new |-> record[f]] IN
             /\ record' = SetAttrs(record, new)
             /\ history' = Recorded(history, [kind |-> "update", action_id |-> next_id,
                                              old_values |-> old, new_values |-> new])
             /\ scenario' = Advance(scenario, "record_update", record, old)
    /\ next_id' = next_id + 1

\* instance.soft_delete() followed by record_delete(instance, ...) (lines 525-535)
app_soft_delete ==
    /\ record.exists /\ record.capable /\ ~record.is_deleted
    /\ next_id < MaxRecords
    /\ record' = soft_delete(record)
    /\ history' = Recorded(history, [kind |-> "delete", action_id |-> next_id,
                                     snapshot |-> CaptureSnapshot(soft_delete(record))])
    /\ scenario' = Advance(scenario, "record_delete", record, NoValues)
    /\ next_id' = next_id + 1

\* manager.undo() (lines 367-387) over action objects: the top action's undo()
\* acts on the record
manager_undo ==
    /\ IF history.undo_stack = <<>>
       THEN UNCHANGED <<record, history>>
       ELSE LET a == Top(history.undo_stack)
                r == Action_undo(a.kind, a, record)
                moved == IF r.ok
                         THEN MoveToOther(history.undo_stack, history.redo_stack, a)
                         ELSE PutBack(history.undo_stack, history.redo_stack, a)
            IN  /\ record' = r.row
                /\ history' = [undo_stack |-> moved.origin, redo_stack |-> moved.other]
    /\ scenario' = Advance(scenario, "undo", record, NoValues)
    /\ UNCHANGED next_id

\* manager.redo() (lines 389-409) over action objects
manager_redo ==
    /\ IF history.redo_stack = <<>>
       THEN UNCHANGED <<record, history>>
       ELSE LET a == Top(history.redo_stack)
                r == Action_redo(a.kind, a, record)
                moved == IF r.ok
                         THEN MoveToOther(history.redo_stack, history.undo_stack, a)
                         ELSE PutBack(history.redo_stack, history.undo_stack, a)
            IN  /\ record' = r.row
                /\ history' = [undo_stack |-> moved.other, redo_stack |-> moved.origin]
    /\ scenario' = Advance(scenario, "redo", record, NoValues)
    /\ UNCHANGED next_id

\* no record created yet, the singleton manager's stacks empty
InitCycle ==
    /\ history = [undo_stack |-> <<>>, redo_stack |-> <<>>]
    /\ next_id = 0
    /\ scenario = [followed |-> TRUE, done |-> 0,
                   born |-> CaptureSnapshot(NotFound), old_values |-> NoValues]

----------------------------------------------------------------------------
(* BackupScheduler *)

\* self.thread = None
NoThread == 0

\* the day is cut at midnight and at 02:00: part 0 is 00:00-01:59, part 1 is
\* 02:00-23:59
DayParts == {0, 1}

\* config["backup_time"] values: midnight, the default one, and one that
\* "HH:MM" parsing rejects
BackupTimes == {"00:00", "02:00", "invalid"}

\* _should_run_backup, lines 135-141: split(":"), int() and datetime_time();
\* a ValueError or AttributeError is caught
ParseBackupTime(str) ==
    CASE str = "00:00" -> [ok |-> TRUE, part |-> 0]
      [] str = "02:00" -> [ok |-> TRUE, part |-> 1]
      [] OTHER         -> [ok |-> FALSE, part |-> 0]

\* _should_run_backup (lines 128-154) with configuration cfg, when
\* _last_backup_time is lastt and datetime.now() is t
_should_run_backup(cfg, lastt, t) ==
    LET backup_time == ParseBackupTime(cfg.backup_time) IN
    IF ~backup_time.ok THEN FALSE
    ELSE IF t.part >= backup_time.part
         THEN IF lastt = None THEN TRUE
              ELSE IF lastt < t.day THEN TRUE
              ELSE FALSE
         ELSE FALSE

\* what create_backup and verify_backup do in one scheduled run: the backup is
\* verified valid, it is valid but the verification lacks the size or the
\* employee count the log line reads, it is verified invalid, or one of the two
\* calls raises
BackupOutcomes == {"valid", "valid_unlogged", "invalid", "exception"}

AdvancesAlways_mut(outcome) == TRUE
\* _run_scheduled_backup: self._last_backup_time = datetime.now() is inside
\* "if verification['valid']:" (lines 172-173)
AdvancesLast(outcome) == outcome \in {"valid", "valid_unlogged"}

\* the status the callbacks get (lines 183, 191, 200); the KeyError of the log
\* line is caught by the outer handler before any success callback is called
StatusOf(outcome) ==
    CASE outcome = "valid"   -> "success"
      [] outcome = "invalid" -> "failed"
      [] OTHER               -> "error"

\* the callbacks an application registers, in the order it registers them; it
\* goes through them again when it registers more
BackupCallbackOrder == <<"notify_ui", "write_log">>
NextCallback(cbs) == BackupCallbackOrder[(Len(cbs) % Len(BackupCallbackOrder)) + 1]

\* "for callback in self._backup_callbacks: try: callback(status, ...)": one
\* call per entry of the list, in order
CallEach(cbs, status) ==
    [i \in 1..Len(cbs) |-> [callback |-> cbs[i], status |-> status]]

NoAttempt == [outcome |-> "none", delivered |-> <<>>]

StopChangesNothing_mut(r, e) == [running |-> r, stop_event |-> e]
\* stop(), lines 98-99: self.running = False; self._stop_event.set()
StopEffect(r, e) == [running |-> FALSE, stop_event |-> TRUE]

\* start() (lines 64-86)
start ==
    /\ caller = "idle"
    /\ IF ~config.automatic_daily \/ running
       THEN UNCHANGED <<running, stop_event, thread, threads>>
       ELSE /\ Len(threads) < MaxThreads
            /\ stop_event' = FALSE
            /\ running' = TRUE
            /\ threads' = Append(threads, "check")
            /\ thread' = Len(threads) + 1
    /\ UNCHANGED <<last_backup_time, config, backup_callbacks, clock, caller, succeeded_today, last_attempt, manual_backup>>

\* stop() (lines 88-104) up to the join: the caller then waits in
\* self.thread.join(timeout=5.0) when the thread is alive
stop ==
    /\ caller = "idle"
    /\ IF ~running
       THEN UNCHANGED <<running, stop_event, caller>>
       ELSE LET e == StopEffect(running, stop_event) IN
            /\ running' = e.running
            /\ stop_event' = e.stop_event
            /\ caller' = IF thread # NoThread /\ threads[thread] # "done"
                         THEN "joining" ELSE "idle"
    /\ UNCHANGED <<thread, threads, last_backup_time, config, backup_callbacks, clock,
                   succeeded_today, last_attempt, manual_backup>>

\* join returns because the thread has terminated
join_returns ==
    /\ caller = "joining"
    /\ threads[thread] = "done"
    /\ caller' = "idle"
    /\ UNCHANGED <<running, stop_event, thread, threads, last_backup_time, config,
                   backup_callbacks, clock, succeeded_today, last_attempt, manual_backup>>

\* join returns after its 5 seconds while the thread is still inside a backup
\* (create_backup, verify_backup or a callback taking longer than that)
join_times_out ==
    /\ caller = "joining"
    /\ threads[thread] = "backup"
    /\ caller' = "idle"
    /\ UNCHANGED <<running, stop_event, thread, threads, last_backup_time, config,
                   backup_callbacks, clock, succeeded_today, last_attempt, manual_backup>>

\* register_callback (lines 204-214): a plain append; the application
\* registers its callbacks before it starts the scheduler for the first time
register_callback ==
    /\ caller = "idle"
    /\ threads = <<>>
    /\ Len(backup_callbacks) < MaxCallbacks
    /\ backup_callbacks' = Append(backup_callbacks, NextCallback(backup_callbacks))
    /\ UNCHANGED <<running, stop_event, thread, threads, last_backup_time, config, clock,
                   caller, succeeded_today, last_attempt, manual_backup>>

\* run_backup_now (lines 216-227): create_backup("manual") and nothing else
run_backup_now ==
    /\ caller = "idle"
    /\ manual_backup' = TRUE
    /\ UNCHANGED <<running, stop_event, thread, threads, last_backup_time, config,
                   backup_callbacks, clock, caller, succeeded_today, last_attempt>>

\* _run_scheduler, "while self.running:" (line 110)
loop_test(i) ==
    /\ i <= Len(threads)
    /\ threads[i] = "check"
    /\ threads' = [threads EXCEPT ![i] = IF running THEN "poll" ELSE "done"]
    /\ UNCHANGED <<running, stop_event, thread, last_backup_time, config, backup_callbacks,
                   clock, caller, succeeded_today, last_attempt, manual_backup>>

\* _run_scheduler, "if self._should_run_backup():" (line 113)
poll(i) ==
    /\ i <= Len(threads)
    /\ threads[i] = "poll"
    /\ threads' = [threads EXCEPT ![i] =
                     IF _should_run_backup(config, last_backup_time, clock)
                     THEN "backup" ELSE "wait"]
    /\ UNCHANGED <<running, stop_event, thread, last_backup_time, config, backup_callbacks,
                   clock, caller, succeeded_today, last_attempt, manual_backup>>

\* _run_scheduled_backup (lines 156-202) completes: the thread was in it since
\* its poll, datetime.now() of line 173 is the time of completion
_run_scheduled_backup(i) ==
    /\ i <= Len(threads)
    /\ threads[i] = "backup"
    /\ \E outcome \in BackupOutcomes :
         /\ last_backup_time' = IF AdvancesLast(outcome) THEN clock.day ELSE last_backup_time
         /\ succeeded_today' = (succeeded_today \/ outcome \in {"valid", "valid_unlogged"})
         /\ last_attempt' = [outcome |-> outcome,
                             delivered |-> CallEach(backup_callbacks, StatusOf(outcome))]
    /\ threads' = [threads EXCEPT ![i] = "wait"]
    /\ UNCHANGED <<running, stop_event, thread, config, backup_callbacks, clock, caller,
                   manual_backup>>

\* _run_scheduler, "if self._stop_event.wait(timeout=60): break" (lines 117-118):
\* the wait returns True at once when the event is set, False after a minute
wait(i) ==
    /\ i <= Len(threads)
    /\ threads[i] = "wait"
    /\ threads' = [threads EXCEPT ![i] = IF stop_event THEN "done" ELSE "check"]
    /\ UNCHANGED <<running, stop_event, thread, last_backup_time, config, backup_callbacks,
                   clock, caller, succeeded_today, last_attempt, manual_backup>>

\* a step of the thread i
ThreadStep(i) == loop_test(i) \/ poll(i) \/ _run_scheduled_backup(i) \/ wait(i)

\* the clock passes 02:00 or midnight
Tick ==
    /\ clock.part = 0 \/ clock.day < MaxDay
    /\ clock' = IF clock.part = 0 THEN [day |-> clock.day, part |-> 1]
              ELSE [day |-> clock.day + 1, part |-> 0]
    /\ succeeded_today' = IF clock.part = 0 THEN succeeded_today ELSE FALSE
    /\ UNCHANGED <<running, stop_event, thread, threads, last_backup_time, config,
                   backup_callbacks, caller, last_attempt, manual_backup>>

\* BackupScheduler.__init__ (lines 36-50) with a config dictionary
InitScheduler ==
    /\ running = FALSE
    /\ stop_event = FALSE
    /\ thread = NoThread
    /\ threads = <<>>
    /\ last_backup_time = None
    /\ config \in [automatic_daily : BOOLEAN, backup_time : BackupTimes]
    /\ backup_callbacks = <<>>
    /\ clock \in [day : {0}, part : DayParts]
    /\ caller = "idle"
    /\ succeeded_today = FALSE
    /\ last_attempt = NoAttempt
    /\ manual_backup = FALSE

\* BackupScheduler.__init__ without a config dictionary (lines 45, 52-62), after
\* 02:00 of day 0, with one callback registered
InitSchedulerDefault ==
    /\ running = FALSE
    /\ stop_event = FALSE
    /\ thread = NoThread
    /\ threads = <<>>
    /\ last_backup_time = None
    /\ config = [automatic_daily |-> TRUE, backup_time |-> "02:00"]
    /\ backup_callbacks = <<NextCallback(<<>>)>>
    /\ clock = [day |-> 0, part |-> 1]
    /\ caller = "idle"
    /\ succeeded_today = FALSE
    /\ last_attempt = NoAttempt
    /\ manual_backup = FALSE

\* a scheduler with the default configuration (lines 52-62) that is left alone
IdleScheduler ==
    /\ running = FALSE
    /\ stop_event = FALSE
    /\ thread = NoThread
    /\ threads = <<>>
    /\ last_backup_time = None
    /\ config = [automatic_daily |-> TRUE, backup_time |-> "02:00"]
    /\ backup_callbacks = <<>>
    /\ clock = [day |-> 0, part |-> 0]
    /\ caller = "idle"
    /\ succeeded_today = FALSE
    /\ last_attempt = NoAttempt
    /\ manual_backup = FALSE

----------------------------------------------------------------------------
(* Specifications *)

\* the components of which a specification constructs nothing more
IdleLater == InitNotify /\ IdleLevel /\ InitCycle /\ IdleScheduler

\* a component that takes no step in a specification: constructed and left alone
IdleUndo ==
    /\ undo_stack = <<>>
    /\ redo_stack = <<>>
    /\ max_history = DEFAULT_MAX_HISTORY
    /\ action_id = 0
    /\ last = [op |-> "__init__", outcome |-> "none", result |-> None,
               action |-> None, raised |-> FALSE, prev |-> <<"none", "none">>]
    /\ before = [undo_stack |-> <<>>, redo_stack |-> <<>>]
    /\ recorded = <<>>

IdleRecord ==
    /\ record = NotFound
    /\ act = NoAction
    /\ rlast = RLast("none", "none", TRUE, FALSE)

\* a config component of which no manager is constructed
IdleConfig ==
    /\ defaults = DEFAULT_SETTINGS
    /\ mgr = [m \in ManagerNames |-> NoManager]
    /\ disk = AbsentFile
    /\ ccalls = 0
    /\ clast = CLast("none", "first", NoArgs, TRUE, FALSE, FALSE)

\* the undo manager alone: record_action, undo, redo, clear_history in any order
StepUndo ==
    \/ record_action /\ UNCHANGED <<recordVars, alertVars, configVars, singletonVars, laterVars>>
    \/ undo /\ UNCHANGED <<recordVars, alertVars, configVars, singletonVars, laterVars>>
    \/ redo /\ UNCHANGED <<recordVars, alertVars, configVars, singletonVars, laterVars>>
    \/ clear_history /\ UNCHANGED <<recordVars, alertVars, configVars, singletonVars, laterVars>>

StartUndo == InitUndo /\ IdleRecord /\ InitAlert /\ IdleConfig /\ InitSingleton /\ IdleLater

SpecUndo == StartUndo /\ [][StepUndo]_vars

\* the undo manager with its history callbacks
StepNotify ==
    \/ register_history_callback /\ UNCHANGED <<recordVars, alertVars, configVars, singletonVars, levelVars, cycleVars, schedulerVars>>
    \/ notifying_record_action /\ UNCHANGED <<recordVars, alertVars, configVars, singletonVars, levelVars, cycleVars, schedulerVars>>
    \/ notifying_undo /\ UNCHANGED <<recordVars, alertVars, configVars, singletonVars, levelVars, cycleVars, schedulerVars>>
    \/ notifying_redo /\ UNCHANGED <<recordVars, alertVars, configVars, singletonVars, levelVars, cycleVars, schedulerVars>>
    \/ notifying_clear_history /\ UNCHANGED <<recordVars, alertVars, configVars, singletonVars, levelVars, cycleVars, schedulerVars>>

StartNotify == InitUndo /\ IdleRecord /\ InitAlert /\ IdleConfig /\ InitSingleton /\ InitNotify /\ IdleLevel /\ InitCycle /\ IdleScheduler

SpecNotify == StartNotify /\ [][StepNotify]_vars

\* the scheduler, the application thread that calls it, its background
\* threads and the clock
schedulerFrame == <<undoVars, recordVars, alertVars, configVars, singletonVars,
                    notifyVars, levelVars, cycleVars>>

StepScheduler ==
    \/ start /\ UNCHANGED schedulerFrame
    \/ stop /\ UNCHANGED schedulerFrame
    \/ join_returns /\ UNCHANGED schedulerFrame
    \/ join_times_out /\ UNCHANGED schedulerFrame
    \/ register_callback /\ UNCHANGED schedulerFrame
    \/ run_backup_now /\ UNCHANGED schedulerFrame
    \/ (\E i \in 1..MaxThreads : loop_test(i)) /\ UNCHANGED schedulerFrame
    \/ (\E i \in 1..MaxThreads : poll(i)) /\ UNCHANGED schedulerFrame
    \/ (\E i \in 1..MaxThreads : _run_scheduled_backup(i)) /\ UNCHANGED schedulerFrame
    \/ (\E i \in 1..MaxThreads : wait(i)) /\ UNCHANGED schedulerFrame
    \/ Tick /\ UNCHANGED schedulerFrame

\* start, stop and the threads alone, on a scheduler constructed with the
\* default configuration after 02:00: the calls and the clock steps that touch
\* neither running, the event nor the threads are left out
StepSchedulerLive ==
    \/ start /\ UNCHANGED schedulerFrame
    \/ stop /\ UNCHANGED schedulerFrame
    \/ join_returns /\ UNCHANGED schedulerFrame
    \/ join_times_out /\ UNCHANGED schedulerFrame
    \/ (\E i \in 1..MaxThreads : loop_test(i)) /\ UNCHANGED schedulerFrame
    \/ (\E i \in 1..MaxThreads : poll(i)) /\ UNCHANGED schedulerFrame
    \/ (\E i \in 1..MaxThreads : _run_scheduled_backup(i)) /\ UNCHANGED schedulerFrame
    \/ (\E i \in 1..MaxThreads : wait(i)) /\ UNCHANGED schedulerFrame

StartSchedulerLive == IdleUndo /\ IdleRecord /\ InitAlert /\ IdleConfig /\ InitSingleton /\ InitNotify /\ IdleLevel /\ InitCycle /\ InitSchedulerDefault

StartScheduler == IdleUndo /\ IdleRecord /\ InitAlert /\ IdleConfig /\ InitSingleton /\ InitNotify /\ IdleLevel /\ InitCycle /\ InitScheduler

SpecScheduler == StartScheduler /\ [][StepScheduler]_vars

\* that scheduler when every thread that can take a step eventually takes
\* one: the operating system schedules each thread, a backup in progress
\* completes, and a wait returns when the event is set or the minute is over
SpecSchedulerLive ==
    /\ StartSchedulerLive
    /\ [][StepSchedulerLive]_vars
    /\ \A i \in 1..MaxThreads : WF_vars(ThreadStep(i) /\ UNCHANGED schedulerFrame)

\* the application creates, edits and soft-deletes one record, records every
\* edit and undoes and redoes through the manager
StepCycle ==
    \/ app_create /\ UNCHANGED <<undoVars, act, rlast, alertVars, configVars, singletonVars, notifyVars, levelVars, schedulerVars>>
    \/ app_update /\ UNCHANGED <<undoVars, act, rlast, alertVars, configVars, singletonVars, notifyVars, levelVars, schedulerVars>>
    \/ app_soft_delete /\ UNCHANGED <<undoVars, act, rlast, alertVars, configVars, singletonVars, notifyVars, levelVars, schedulerVars>>
    \/ manager_undo /\ UNCHANGED <<undoVars, act, rlast, alertVars, configVars, singletonVars, notifyVars, levelVars, schedulerVars>>
    \/ manager_redo /\ UNCHANGED <<undoVars, act, rlast, alertVars, configVars, singletonVars, notifyVars, levelVars, schedulerVars>>

StartCycle == IdleUndo /\ IdleRecord /\ InitAlert /\ IdleConfig /\ InitSingleton /\ InitNotify /\ IdleLevel /\ InitCycle /\ IdleScheduler

SpecCycle == StartCycle /\ [][StepCycle]_vars

\* get_alert_level as a function of days_until, over arbitrary settings
StepLevel ==
    probe_get_alert_level /\ UNCHANGED <<undoVars, recordVars, alertVars, configVars, singletonVars, notifyVars, cycleVars, schedulerVars>>

StartLevel == IdleUndo /\ IdleRecord /\ InitAlert /\ IdleConfig /\ InitSingleton /\ InitNotify /\ InitLevel /\ InitCycle /\ IdleScheduler

SpecLevel == StartLevel /\ [][StepLevel]_vars

\* one record, the application's edits of it and the actions built over it
StepRecord ==
    \/ Model_save /\ UNCHANGED <<undoVars, alertVars, configVars, singletonVars, laterVars>>
    \/ Model_soft_delete /\ UNCHANGED <<undoVars, alertVars, configVars, singletonVars, laterVars>>
    \/ Model_delete_instance /\ UNCHANGED <<undoVars, alertVars, configVars, singletonVars, laterVars>>
    \/ CreateAction_init /\ UNCHANGED <<undoVars, alertVars, configVars, singletonVars, laterVars>>
    \/ DeleteAction_init /\ UNCHANGED <<undoVars, alertVars, configVars, singletonVars, laterVars>>
    \/ UpdateAction_init /\ UNCHANGED <<undoVars, alertVars, configVars, singletonVars, laterVars>>
    \/ CallUndo /\ UNCHANGED <<undoVars, alertVars, configVars, singletonVars, laterVars>>
    \/ CallRedo /\ UNCHANGED <<undoVars, alertVars, configVars, singletonVars, laterVars>>

StartRecord == IdleUndo /\ InitRecord /\ InitAlert /\ IdleConfig /\ InitSingleton /\ IdleLater

SpecRecord == StartRecord /\ [][StepRecord]_vars

\* one AlertSettingsManager constructed without a config file
StepAlert ==
    \/ update_category /\ UNCHANGED <<undoVars, recordVars, configVars, singletonVars, laterVars>>
    \/ reset_to_defaults /\ UNCHANGED <<undoVars, recordVars, configVars, singletonVars, laterVars>>

StartAlert == IdleUndo /\ IdleRecord /\ InitAlert /\ IdleConfig /\ InitSingleton /\ IdleLater

SpecAlert == StartAlert /\ [][StepAlert]_vars

\* the managers of one process over one config path
StepConfig ==
    \/ AlertSettingsManager_init /\ UNCHANGED <<undoVars, recordVars, alertVars, singletonVars, laterVars>>
    \/ instance_update_category /\ UNCHANGED <<undoVars, recordVars, alertVars, singletonVars, laterVars>>
    \/ instance_reset_to_defaults /\ UNCHANGED <<undoVars, recordVars, alertVars, singletonVars, laterVars>>
    \/ instance_save_settings /\ UNCHANGED <<undoVars, recordVars, alertVars, singletonVars, laterVars>>

StartConfig == IdleUndo /\ IdleRecord /\ InitAlert /\ InitConfig /\ InitSingleton /\ IdleLater

SpecConfig == StartConfig /\ [][StepConfig]_vars

\* the class-level singleton and the module's record_* entry points
StepSingleton ==
    \/ get_instance /\ UNCHANGED <<undoVars, recordVars, alertVars, configVars, laterVars>>
    \/ reset_instance /\ UNCHANGED <<undoVars, recordVars, alertVars, configVars, laterVars>>
    \/ UndoManager_init /\ UNCHANGED <<undoVars, recordVars, alertVars, configVars, laterVars>>
    \/ record_delete /\ UNCHANGED <<undoVars, recordVars, alertVars, configVars, laterVars>>
    \/ record_update /\ UNCHANGED <<undoVars, recordVars, alertVars, configVars, laterVars>>
    \/ record_create /\ UNCHANGED <<undoVars, recordVars, alertVars, configVars, laterVars>>

StartSingleton == IdleUndo /\ IdleRecord /\ InitAlert /\ IdleConfig /\ InitSingleton /\ IdleLater

SpecSingleton == StartSingleton /\ [][StepSingleton]_vars

----------------------------------------------------------------------------
(* Properties of the undo manager (SpecUndo) *)

AllButLast(s) == SubSeq(s, 1, Len(s) - 1)
LastK(s, k) == SubSeq(s, Len(s) - k + 1, Len(s))
Occurrences(s, a) == Cardinality({i \in DOMAIN s : s[i] = a})

\* C2: once more actions than max_history have been recorded in a row, undo_stack
\* is exactly the max_history most recently recorded ones, in recording order;
\* a record_action on a full stack drops the entry at index 0
C2_KeepsMostRecent ==
    /\ Len(recorded) > max_history => undo_stack = LastK(recorded, max_history)
    /\ (last.op = "record_action" /\ Len(before.undo_stack) = max_history)
           => undo_stack = Append(Tail(before.undo_stack), last.action)

\* C2 witness: five actions recorded in a row on a manager that keeps three
C2_Witness ==
    /\ max_history = 3
    /\ Len(recorded) = 5
    /\ undo_stack = <<2, 3, 4>>

C4_FailureRestores ==
    (last.op \in {"undo", "redo"} /\ last.outcome = "False") =>
        /\ last.result = None
        /\ ~last.raised
        /\ undo_stack = before.undo_stack
        /\ redo_stack = before.redo_stack
        /\ last.op = "undo" => (undo_stack # <<>> /\ Top(undo_stack) = last.action)
        /\ last.op = "redo" => (redo_stack # <<>> /\ Top(redo_stack) = last.action)

\* C4 witness: a failed redo() directly after a failed undo(), both stacks non-empty
C4_Witness ==
    /\ last.op = "redo"
    /\ last.outcome = "False"
    /\ last.prev = <<"undo", "False">>
    /\ undo_stack # <<>>
    /\ redo_stack # <<>>

\* C5: no action is on both stacks, and none is twice on a stack
C5_NoDuplicates ==
    \A a \in 0..(action_id - 1) : Occurrences(undo_stack \o redo_stack, a) <= 1

\* C5 witness: an action has gone to the redo stack and come back while another
\* one is still on the redo stack
C5_Witness ==
    /\ last.op = "redo"
    /\ last.outcome = "True"
    /\ redo_stack # <<>>
    /\ Len(undo_stack) >= 2

\* C6: undo() and redo() never let an exception out and never lose the action:
\* after the call it is on exactly one of the two stacks
C6_NeverRaisesNeverLoses ==
    (last.op \in {"undo", "redo"} /\ last.outcome # "empty") =>
        /\ ~last.raised
        /\ Occurrences(undo_stack \o redo_stack, last.action) = 1

\* C7: a successful undo() takes the top of undo_stack, puts it on top of
\* redo_stack and returns it; a successful redo() does the reverse; a successful
\* redo() directly after a successful undo() returns the same action and gives
\* back both stacks as they were before the undo()
C7_UndoRedoIdentity ==
    [][ /\ (last'.op = "undo" /\ last'.outcome = "True") =>
              /\ undo_stack # <<>>
              /\ last'.result = Top(undo_stack)
              /\ undo_stack' = AllButLast(undo_stack)
              /\ redo_stack' = Append(redo_stack, Top(undo_stack))
        /\ (last'.op = "redo" /\ last'.outcome = "True") =>
              /\ redo_stack # <<>>
              /\ last'.result = Top(redo_stack)
              /\ redo_stack' = AllButLast(redo_stack)
              /\ undo_stack' = Append(undo_stack, Top(redo_stack))
        /\ (last.op = "undo" /\ last.outcome = "True" /\
            last'.op = "redo" /\ last'.outcome = "True") =>
              /\ last'.result = last.result
              /\ undo_stack' = before.undo_stack
              /\ redo_stack' = before.redo_stack
      ]_vars

\* C7 witness: B then A were undone and the redo() that followed gave A back,
\* B still waiting on the redo stack
C7_Witness ==
    /\ last.op = "redo"
    /\ last.outcome = "True"
    /\ last.prev = <<"undo", "True">>
    /\ redo_stack # <<>>
    /\ undo_stack # <<>>
    /\ last.result = Top(undo_stack)
    /\ Top(redo_stack) = last.result + 1

\* C22: the undo stack never holds more than max_history actions, whatever
\* the sequence of record_action, undo, redo and clear_history calls, also
\* after redo() has pushed an action back onto it.
C22_Bounded == Len(undo_stack) <= max_history

\* redo() has just pushed an action back and the stack is full
C22_Witness ==
    /\ last.op = "redo"
    /\ last.outcome = "True"
    /\ Len(undo_stack) = max_history
    /\ Len(before.undo_stack) = max_history - 1
    /\ action_id > max_history

----------------------------------------------------------------------------
(* Properties of the action classes (SpecRecord) *)

\* C8: undo() of a DeleteAction on the soft-deleted record leaves it not
\* deleted; undo() of an UpdateAction sets every field named in old_values to
\* its old value; redo() of a CreateAction directly after its undo() leaves the
\* record not deleted, every snapshot field as captured at creation
C8_ActionsRevert ==
    [][ /\ (rlast'.op = "undo" /\ rlast'.kind = "delete" /\
            record.exists /\ record.is_deleted) =>
              /\ rlast'.result
              /\ record'.exists
              /\ ~record'.is_deleted
        /\ (rlast'.op = "undo" /\ rlast'.kind = "update" /\ record.exists) =>
              /\ rlast'.result
              /\ \A f \in DOMAIN act.old_values : record'[f] = act.old_values[f]
        /\ (rlast.op = "undo" /\ rlast.kind = "create" /\ rlast.result /\
            rlast'.op = "redo" /\ rlast'.kind = "create") =>
              /\ rlast'.result
              /\ ~record'.is_deleted
              /\ \A f \in SnapshotFields : record'[f] = act.snapshot[f]
      ]_vars

\* C8 witness: a CreateAction was undone and then redone, and the record is
\* back, not deleted
C8_Witness ==
    /\ rlast.op = "redo"
    /\ rlast.kind = "create"
    /\ rlast.after_undo
    /\ rlast.result
    /\ record.exists
    /\ ~record.is_deleted

----------------------------------------------------------------------------
(* Properties of the alert settings (SpecAlert) *)

TierNames == {"critical", "alert", "warning", "info"}

\* the days bound of a tier of a category, for the tiers the category has
TiersOf(cat) ==
    {t \in TierNames : t = "critical" => cat.critical.present}
DaysOf(cat, t) ==
    CASE t = "critical" -> cat.critical.days
      [] t = "alert"    -> cat.alert
      [] t = "warning"  -> cat.warning
      [] OTHER          -> cat.info

\* the tier whose days bound is the smallest threshold still >= days_until
SmallestThresholdTier(cat, days_until) ==
    IF days_until > cat.info THEN "None"
    ELSE LET fit == {t \in TiersOf(cat) : DaysOf(cat, t) >= days_until}
         IN  CHOOSE t \in fit : \A u \in fit : DaysOf(cat, t) <= DaysOf(cat, u)

\* C1: for an enabled category get_alert_level returns the tier whose bound is
\* the smallest threshold still >= days_until, None above info.days, and alert
\* for every days_until <= alert.days when the category has no critical tier
C1_SmallestThreshold ==
    \A c \in VALID_CATEGORIES : settings[c].enabled =>
        \A d \in DaysUntilValues :
            /\ get_alert_level(settings, c, d) = SmallestThresholdTier(settings[c], d)
            /\ (~settings[c].critical.present /\ d <= settings[c].alert)
                   => get_alert_level(settings, c, d) = "alert"

\* C9: every category keeps info.days > warning.days > alert.days > 0 and, with
\* a critical tier, critical.days < alert.days
C9_ThresholdOrder ==
    \A c \in VALID_CATEGORIES :
        /\ settings[c].info > settings[c].warning
        /\ settings[c].warning > settings[c].alert
        /\ settings[c].alert > 0
        /\ settings[c].critical.present => settings[c].critical.days < settings[c].alert

\* C10: an update_category call whose arguments break a rule returns False and
\* changes neither the settings nor the config file
C10_RejectedUpdateChangesNothing ==
    [][ (alast'.op = "update_category" /\ alast'.broken # {}) =>
            /\ alast'.result = FALSE
            /\ settings' = settings
            /\ config_file' = config_file
      ]_vars

\* C10 witness: after a first update was saved, a second one with critical_days
\* not below alert_days was turned down
C10_Witness ==
    /\ alast.op = "update_category"
    /\ alast.broken = {"critical_not_below_alert"}
    /\ alast.result = FALSE
    /\ settings # DEFAULT_SETTINGS
    /\ config_file = Document(settings)

----------------------------------------------------------------------------
(* Claims about loading, saving and sharing of alert settings *)

\* the days of a level of a category's settings; None for an absent critical
DaysOfLevel(cat, l) ==
    CASE l = "info"    -> cat.info
      [] l = "warning" -> cat.warning
      [] l = "alert"   -> cat.alert
      [] OTHER         -> IF cat.critical.present THEN cat.critical.days ELSE None

\* C11: an update_category(c, i, w, a, k, e) that returns True leaves category c
\* with info i, warning w, alert a, enabled e and, when k is given, critical k,
\* and leaves the other categories of the manager as they were.
C11_UpdateSetsFields ==
    [][(clast'.op = "update_category" /\ clast'.result) =>
         LET x == clast'.args
             was == SettingsOf(mgr[clast'.m], defaults)
             now == SettingsOf(mgr'[clast'.m], defaults')
         IN  /\ now[x.category].info = x.info_days
             /\ now[x.category].warning = x.warning_days
             /\ now[x.category].alert = x.alert_days
             /\ now[x.category].enabled = x.enabled
             /\ x.critical_days.present => now[x.category].critical = x.critical_days
             /\ \A o \in VALID_CATEGORIES \ {x.category} : now[o] = was[o]]_vars

\* C12: update_category or reset_to_defaults on one manager changes neither the
\* settings of another manager nor the built-in default table.
C12_NoSharedState ==
    [][clast'.op \in {"update_category", "reset_to_defaults"} =>
         /\ defaults' = defaults
         /\ \A n \in ManagerNames \ {clast'.m} :
              mgr[n].live => SettingsOf(mgr'[n], defaults') = SettingsOf(mgr[n], defaults)]_vars

\* C13: reset_to_defaults(c) leaves c with exactly the built-in thresholds and
\* every other category unchanged; reset_to_defaults() does so for all four;
\* an unknown category returns False and changes nothing.
C13_ResetRestoresBuiltIns ==
    [][clast'.op = "reset_to_defaults" =>
         LET c == clast'.args.category
             was == SettingsOf(mgr[clast'.m], defaults)
             now == SettingsOf(mgr'[clast'.m], defaults')
         IN  IF c = NoCategory THEN now = DEFAULT_SETTINGS
             ELSE IF c \in VALID_CATEGORIES
             THEN /\ now[c] = DEFAULT_SETTINGS[c]
                  /\ \A o \in VALID_CATEGORIES \ {c} : now[o] = was[o]
             ELSE ~clast'.result /\ now = was /\ disk' = disk]_vars

\* C14: a manager constructed right after another manager saved its settings
\* has, for all four categories, the same enabled flags and the same info,
\* warning, alert and critical thresholds, an absent critical staying absent.
C14_RoundTrip ==
    [][(clast'.op = "__init__" /\ Saved) =>
         /\ ~clast'.raised
         /\ SettingsOf(mgr'[clast'.m], defaults') = SettingsOf(mgr[clast.m], defaults)]_vars

C14_Witness ==
    /\ clast.op = "__init__" /\ clast.after_save /\ clast.m = "second"
    /\ LET now == SettingsOf(mgr["second"], defaults)
       IN  /\ now["caces"].alert = 1 /\ now["caces"].critical = Level(0)
           /\ now["contracts"].critical = NoLevel /\ ~now["contracts"].enabled

\* a file that parses to an object whose category entries are all well formed
WellFormedFile(file) ==
    /\ file.kind = "object"
    /\ \A c \in DOMAIN file.alert_settings : WellFormed(file.alert_settings[c])

\* C15: loading a well-formed file that holds only some of the categories gives
\* the file's values for each category present and the built-in default for
\* each category absent.
C15_PartialFileLoad ==
    [][(clast'.op = "__init__" /\ WellFormedFile(disk)
          /\ DOMAIN disk.alert_settings # VALID_CATEGORIES) =>
         /\ ~clast'.raised
         /\ \A c \in VALID_CATEGORIES :
              SettingsOf(mgr'[clast'.m], defaults')[c] =
                IF c \in DOMAIN disk.alert_settings
                THEN from_dict(disk.alert_settings[c]) ELSE DEFAULT_SETTINGS[c]]_vars

\* C16: when a category's entry lacks a level, the missing levels of that
\* category fall back to its defaults, and every other category that is well
\* formed in the file keeps its loaded values.
C16_PerCategoryRecovery ==
    [][(/\ clast'.op = "__init__"
        /\ disk.kind = "object"
        /\ \A b \in DOMAIN disk.alert_settings : disk.alert_settings[b].levels_is_object
        /\ \E b \in DOMAIN disk.alert_settings : ~WellFormed(disk.alert_settings[b])) =>
         /\ ~clast'.raised
         /\ \A c \in DOMAIN disk.alert_settings :
              LET entry == disk.alert_settings[c]
                  now == SettingsOf(mgr'[clast'.m], defaults')[c]
              IN  IF WellFormed(entry) THEN now = from_dict(entry)
                  ELSE \A l \in RequiredLevels \ DOMAIN entry.levels :
                         DaysOfLevel(now, l) = DaysOfLevel(DEFAULT_SETTINGS[c], l)]_vars

\* C17: constructing a manager never raises, whatever the file holds, and the
\* constructed manager's settings hold all four categories.
C17_ConstructionNeverRaises ==
    clast.op = "__init__" =>
      /\ ~clast.raised
      /\ mgr[clast.m].live
      /\ DOMAIN SettingsOf(mgr[clast.m], defaults) = VALID_CATEGORIES

\* C18: whatever happens to a save, the file afterwards holds the complete
\* previous content or the complete document of the new settings.
C18_AtomicSave ==
    [][config_file' = config_file \/ config_file' = Document(settings')]_vars

\* C19: get_alert_level is None for every days_until when the category is
\* unknown or disabled, and is_enabled is False for an unknown category.
C19_FailsSoft ==
    /\ \A c \in CategoryInputs, d \in DaysUntilValues :
         (c \notin DOMAIN settings \/ ~settings[c].enabled) =>
           get_alert_level(settings, c, d) = "None"
    /\ \A c \in CategoryInputs \ VALID_CATEGORIES : ~is_enabled(settings, c)

C19_Witness ==
    /\ ~settings["caces"].enabled /\ settings["caces"].alert = 1
    /\ settings["contracts"].enabled

----------------------------------------------------------------------------
(* Claims about the singleton *)

\* C20: between two reset_instance() calls every get_instance() returns the
\* same manager, created with max_history = 100, and the actions recorded
\* through record_* are that manager's history; the first get_instance() after
\* a reset returns a new manager with empty stacks; the constructor raises
\* while the class holds an instance.
C20_Singleton ==
    /\ [](/\ Cardinality(got) <= 1
          /\ \A i \in got : i = singleton /\ managers[i].max_history = DEFAULT_MAX_HISTORY
          /\ since # <<>> =>
               /\ singleton # NoInstance
               /\ managers[singleton].undo_stack = since
               /\ managers[singleton].redo_stack = <<>>)
    /\ [][/\ (singleton = NoInstance /\ slast'.op = "get_instance") =>
               /\ singleton' \notin DOMAIN managers
               /\ managers'[singleton'] = NewManager(DEFAULT_MAX_HISTORY)
          /\ (singleton # NoInstance /\ slast'.op = "__init__") =>
               slast'.raised /\ managers' = managers]_vars

C20_Witness ==
    /\ slast.op = "get_instance"
    /\ singleton = 2
    /\ managers[1].undo_stack # <<>>
    /\ managers[1].max_history = DEFAULT_MAX_HISTORY

----------------------------------------------------------------------------
(* update_category and its result (SpecAlert) *)

\* C29: update_category is all-or-nothing with respect to its result: whenever
\* it returns False, also when validation passed and save_settings failed, the
\* in-memory settings equal those before the call.
C29_AllOrNothing ==
    [][ (alast'.op = "update_category" /\ alast'.result = FALSE) =>
            settings' = settings
      ]_vars

----------------------------------------------------------------------------
(* History callbacks (SpecNotify) *)

\* the manager calls that notify
NotifyingOps == {"record_action", "undo", "redo", "clear_history"}

\* the stacks a call leaves when no callback is registered at all
StacksWithoutCallbacks(op, u, r, k, a) ==
    CASE op = "record_action" -> [undo_stack |-> EnforceMaxHistory(Append(u, a), k),
                                  redo_stack |-> <<>>]
      [] op = "clear_history" -> [undo_stack |-> <<>>, redo_stack |-> <<>>]
      [] op = "undo"          -> [undo_stack |-> PopLast(u), redo_stack |-> Append(r, a)]
      [] OTHER                -> [undo_stack |-> Append(u, a), redo_stack |-> PopLast(r)]

\* how many of the calls made are calls of cb
TimesInvoked(made, cb) == Cardinality({j \in 1..Len(made) : made[j].callback = cb})

\* C21: when a registered history callback raises during the notification of
\* record_action, undo, redo or clear_history, the exception does not leave the
\* call, every other registered callback is still invoked, and the stacks hold
\* what they would hold had no callback raised.
C21_RaisingCallbackContained ==
    [][ ( /\ invoked'.op \in NotifyingOps
          /\ \E j \in 1..Len(invoked'.calls) : CallbackRaises(invoked'.calls[j].callback) ) =>
            /\ ~invoked'.raised
            /\ \A i \in 1..Len(callbacks) :
                 \E j \in 1..Len(invoked'.calls) : invoked'.calls[j].callback = callbacks[i]
            /\ LET expected == StacksWithoutCallbacks(invoked'.op, undo_stack, redo_stack,
                                                      max_history, last'.action)
               IN  /\ undo_stack' = expected.undo_stack
                   /\ redo_stack' = expected.redo_stack
      ]_vars

\* the raising callback was registered first and the other one was still
\* invoked by a successful undo
C21_Witness ==
    /\ callbacks = <<"faulty", "observer">>
    /\ invoked.op = "undo"
    /\ Len(invoked.calls) = 2
    /\ invoked.calls[1].callback = "faulty"
    /\ invoked.calls[2].callback = "observer"
    /\ ~invoked.raised
    /\ redo_stack # <<>>

\* C27: record_action, clear_history, a successful undo() and a successful
\* redo() invoke each registered history callback exactly once, when the stacks
\* already hold their new contents; an undo()/redo() that fails or finds its
\* stack empty invokes no callback.
C27_NotifiedOncePerChange ==
    [][ invoked'.op \in NotifyingOps =>
          IF invoked'.op \in {"record_action", "clear_history"} \/ last'.result # None
          THEN /\ \A cb \in CallbackNames :
                    TimesInvoked(invoked'.calls, cb) =
                      IF \E i \in 1..Len(callbacks) : callbacks[i] = cb THEN 1 ELSE 0
               /\ \A j \in 1..Len(invoked'.calls) :
                    /\ invoked'.calls[j].undo_stack = undo_stack'
                    /\ invoked'.calls[j].redo_stack = redo_stack'
          ELSE invoked'.calls = <<>>
      ]_vars

\* a successful redo notified the two registered callbacks, after an undo
\* that failed had notified nobody
C27_Witness ==
    /\ Len(callbacks) = 2
    /\ invoked.op = "redo"
    /\ last.op = "redo"
    /\ last.outcome = "True"
    /\ last.prev = <<"undo", "False">>
    /\ Len(invoked.calls) = 2
    /\ invoked.calls[1].undo_stack = undo_stack
    /\ invoked.calls[1].undo_stack # before.undo_stack

----------------------------------------------------------------------------
(* get_alert_level as a function of days_until (SpecLevel) *)

\* the order critical > alert > warning > info > None
Urgency(tier) ==
    CASE tier = "critical" -> 4
      [] tier = "alert"    -> 3
      [] tier = "warning"  -> 2
      [] tier = "info"     -> 1
      [] OTHER             -> 0

\* C30: get_alert_level is monotone in days_until: whatever the thresholds of
\* the category, for d1 <= d2 the tier returned for d1 is at least as urgent as
\* the tier returned for d2.
C30_Monotone ==
    probe.made => Urgency(probe.tier1) >= Urgency(probe.tier2)

\* enabled settings whose thresholds are not in descending order, probed with
\* two days_until that get different tiers
C30_Witness ==
    /\ probe.made
    /\ level_settings.enabled
    /\ level_settings.info < level_settings.alert
    /\ level_settings.critical.present
    /\ level_settings.critical.days > level_settings.warning
    /\ probe.d1 < probe.d2
    /\ probe.tier1 = "critical"
    /\ probe.tier2 = "alert"

----------------------------------------------------------------------------
(* Undo in reverse recording order (SpecCycle) *)

\* C26: when a create, an update and a soft-delete of one record were recorded
\* in that order, the first undo() restores the record, the second sets the
\* updated fields back to old_values, the third soft-deletes the record, and
\* the redo() that follows leaves the record not deleted with the field values
\* it had at creation.
C26_ReverseOrder ==
    scenario.followed =>
      /\ scenario.done = 4 => record.exists /\ ~record.is_deleted
      /\ scenario.done = 5 =>
            /\ ~record.is_deleted
            /\ \A f \in DOMAIN scenario.old_values : record[f] = scenario.old_values[f]
      /\ scenario.done = 6 => record.is_deleted
      /\ scenario.done = 7 =>
            /\ record.exists /\ ~record.is_deleted
            /\ \A f \in DataFields : record[f] = scenario.born[f]

\* the whole scenario was followed: the create is back on the undo stack, the
\* update and the delete wait on the redo stack
C26_Witness ==
    /\ scenario.followed
    /\ scenario.done = 7
    /\ DOMAIN scenario.old_values = {"first_name"}
    /\ record.first_name = scenario.old_values["first_name"]
    /\ ~record.is_deleted
    /\ Len(history.undo_stack) = 1
    /\ history.undo_stack[1].kind = "create"
    /\ Len(history.redo_stack) = 2
    /\ history.redo_stack[1].kind = "delete"

----------------------------------------------------------------------------
(* The backup scheduler (SpecScheduler, SpecSchedulerLive) *)

\* the threads that are inside _run_scheduler
LoopingThreads == {i \in 1..Len(threads) : threads[i] # "done"}

\* the thread i completes a scheduled backup in this step
CompletesBackup(i) == threads[i] = "backup" /\ threads'[i] = "wait"

\* the thread i evaluates _should_run_backup in this step
Polls(i) == threads[i] = "poll" /\ threads'[i] # "poll"

\* C23: whatever start() and stop() calls were made, at most one thread is
\* inside the scheduler loop.
C23_AtMostOneThread == Cardinality(LoopingThreads) <= 1

\* C24: while stop() waits for the thread, running is False; and when running
\* stays False from some point on (no later start()), every thread created
\* eventually has left its loop and stays terminated.
C24_StopTerminates ==
    /\ [](caller = "joining" => ~running)
    /\ (<>[](~running) => <>[](LoopingThreads = {}))

\* the scheduler was started and stopped, a scheduled backup was made, and the
\* thread has terminated
C24_Witness ==
    /\ ~running
    /\ caller = "idle"
    /\ threads # <<>>
    /\ LoopingThreads = {}
    /\ last_attempt.outcome # "none"

\* C25: no scheduled backup succeeds on a day on which one has succeeded
\* already, and _should_run_backup returns True only when backup_time is
\* well-formed, the time of day has reached it, and no scheduled backup has
\* succeeded on the current day.
C25_OncePerDay ==
    [][ \A i \in 1..Len(threads) :
          /\ (CompletesBackup(i) /\ AdvancesLast(last_attempt'.outcome)) =>
               ~succeeded_today
          /\ (Polls(i) /\ threads'[i] = "backup") =>
               /\ ParseBackupTime(config.backup_time).ok
               /\ clock.part >= ParseBackupTime(config.backup_time).part
               /\ ~succeeded_today
      ]_vars

\* what C28 says of _last_backup_time and of the callbacks: only a scheduled
\* backup verified valid changes _last_backup_time, and every scheduled backup
\* calls each entry of the callback list once, all with the same status
OnlyValidAdvances ==
    /\ last_backup_time' # last_backup_time =>
         \E i \in 1..Len(threads) :
           CompletesBackup(i) /\ last_attempt'.outcome \in {"valid", "valid_unlogged"}
    /\ \A i \in 1..Len(threads) :
         CompletesBackup(i) =>
           /\ last_attempt'.outcome \in {"invalid", "exception"} =>
                last_backup_time' = last_backup_time
           /\ Len(last_attempt'.delivered) = Len(backup_callbacks)
           /\ \E status \in {"success", "failed", "error"} :
                \A k \in 1..Len(backup_callbacks) :
                  last_attempt'.delivered[k] =
                    [callback |-> backup_callbacks[k], status |-> status]

====
